---------------------------- MODULE Spec2Model ----------------------------
(***************************************************************************)
(* State-machine model of the SumGame engine (src/src/App.tsx): the grid,  *)
(* the selection and its evaluation (checkSum), gravity compaction, row    *)
(* injection (addRow), and the Classic / Timed scheduling disciplines.     *)
(*                                                                         *)
(* One action is one browser event (a click, an interval tick, a timeout   *)
(* callback) together with the React effects the resulting render runs:    *)
(* the checkSum effect (lines 188-192), the timer effect (194-211) and the *)
(* high-score effect (213-217).  React processes one event to completion,  *)
(* effects included, before the next event is handled.                     *)
(*                                                                         *)
(* Presentation-only state (isShaking, coverImageUrl, isLoadingImage) is   *)
(* not part of the engine and is left out, as is the menu's coverStep.     *)
(***************************************************************************)
EXTENDS Integers, Sequences, FiniteSets, TLC

(***************************************************************************)
(* Dimensions and ranges.  The program's constants (App.tsx:24-31) are     *)
(* GRID_WIDTH = 6, GRID_HEIGHT = 6, INITIAL_ROWS = 3, TARGET_MIN = 10,     *)
(* TARGET_MAX = 25, NUMBER_MIN = 1, NUMBER_MAX = 9, TIME_LIMIT = 15.  The  *)
(* model checks a scaled-down board: all but NUMBER_MIN are bounds of the  *)
(* model.  With GRID_WIDTH = 2 a clear must be able to remove fewer tiles  *)
(* than a row injection adds, as it does in the program (2 against 6), or  *)
(* the Classic grid could never grow: hence TARGET_MIN <= NUMBER_MAX.      *)
(***************************************************************************)
GRID_WIDTH == 2
GRID_HEIGHT == 2
INITIAL_ROWS == 1
TARGET_MIN == 2
TARGET_MAX == 3
NUMBER_MIN == 1
NUMBER_MAX == 2
TIME_LIMIT == 3

\* Caps on the two counters the program leaves unbounded.
MaxScore == 20
MaxPending == 1

Rows == 0 .. (GRID_HEIGHT - 1)
Cols == 0 .. (GRID_WIDTH - 1)
Values == NUMBER_MIN .. NUMBER_MAX
\* Mutant of Targets: the draw can reach TARGET_MAX + 1.
TargetsWide == TARGET_MIN .. (TARGET_MAX + 1)

Targets == TARGET_MIN .. TARGET_MAX

VARIABLES
    mode,           \* "NONE" (null) | "CLASSIC" | "TIME"          (line 49)
    grid,           \* Grid: rows 0..H-1 of columns 0..W-1         (line 50)
    selected,       \* sequence of [r, c]                          (line 51)
    target,         \*                                             (line 52)
    score,          \*                                             (line 53)
    timeLeft,       \*                                             (line 54)
    isGameOver,     \*                                             (line 55)
    isPaused,       \*                                             (line 56)
    highScore,      \*                                             (line 57)
    pendingResets,  \* setTimeout callbacks of line 181 not yet run
    last,           \* history: what the last event did
    fin, fout, fop  \* input, output and name of a function applied in isolation

vars == <<mode, grid, selected, target, score, timeLeft, isGameOver, isPaused,
          highScore, pendingResets, last, fin, fout, fop>>

gameVars == <<mode, grid, selected, target, score, timeLeft, isGameOver,
              isPaused, highScore, pendingResets, last>>

fnVars == <<fin, fout, fop>>

(***************************************************************************)
(* Cells and tiles (Block, lines 38-42).  null is the cell of value 0.     *)
(* Block.id is a random token that only the presentation reads (as the     *)
(* animation's layoutId, line 439); the engine never does, and the model   *)
(* leaves it out.  A tile is told from another by the cell it occupies.    *)
(***************************************************************************)
Null == [value |-> 0, isNew |-> FALSE]

Block(v, n) == [value |-> v, isNew |-> n]

EmptyGrid == [r \in Rows |-> [c \in Cols |-> Null]]

NoGrid == << >>

(***************************************************************************)
(* initGrid (lines 86-100): all cells null, then the bottom INITIAL_ROWS   *)
(* rows filled, bottom row first, left to right.  vals[r][c] is the value  *)
(* Math.random yields for cell (r, c).  The tiles carry no isNew field.    *)
(***************************************************************************)
InitRows == (GRID_HEIGHT - INITIAL_ROWS) .. (GRID_HEIGHT - 1)

InitVals == [InitRows -> [Cols -> Values]]

initGrid(vals) ==
    [r \in Rows |-> [c \in Cols |->
        IF r >= GRID_HEIGHT - INITIAL_ROWS
        THEN Block(vals[r][c], FALSE)
        ELSE Null]]

(***************************************************************************)
(* The rows addRow can generate (lines 113-117): GRID_WIDTH tiles, each    *)
(* with a value in NUMBER_MIN..NUMBER_MAX and isNew = true.                *)
(***************************************************************************)
NewRows == {[c \in Cols |-> Block(v[c], TRUE)] : v \in [Cols -> Values]}

(***************************************************************************)
(* addRow (lines 102-120).  Returns the grid and whether setIsGameOver     *)
(* (true) was called.                                                      *)
(***************************************************************************)
\* Mutant of ShiftUp: the loop stops one row early.
RECURSIVE ShiftUpShort(_, _)
ShiftUpShort(newGrid, r) ==
    IF r < GRID_HEIGHT - 2
    THEN ShiftUpShort([newGrid EXCEPT ![r] = newGrid[r + 1]], r + 1)
    ELSE newGrid

\* for (let r = 0; r < GRID_HEIGHT - 1; r++) newGrid[r] = newGrid[r + 1]
RECURSIVE ShiftUp(_, _)
ShiftUp(newGrid, r) ==
    IF r < GRID_HEIGHT - 1
    THEN ShiftUp([newGrid EXCEPT ![r] = newGrid[r + 1]], r + 1)
    ELSE newGrid

\* Mutant of addRow: game over only when row 0 is full (every for some).
addRowEvery(currentGrid, newRow) ==
    IF \A c \in Cols : currentGrid[0][c] # Null
    THEN [grid |-> currentGrid, over |-> TRUE]
    ELSE [grid |-> [ShiftUp(currentGrid, 0) EXCEPT ![GRID_HEIGHT - 1] = newRow],
          over |-> FALSE]

addRow(currentGrid, newRow) ==
    IF \E c \in Cols : currentGrid[0][c] # Null
    THEN [grid |-> currentGrid, over |-> TRUE]
    ELSE [grid |-> [ShiftUp(currentGrid, 0) EXCEPT ![GRID_HEIGHT - 1] = newRow],
          over |-> FALSE]

(***************************************************************************)
(* The compaction loop of checkSum (lines 157-167), column by column, each *)
(* column scanned from the bottom row up with the write index emptyRow.    *)
(***************************************************************************)
\* Mutant of CompactColumn: emptyRow is not decremented.
RECURSIVE CompactColumnNoDec(_, _, _, _)
CompactColumnNoDec(newGrid, c, r, emptyRow) ==
    IF r < 0 THEN newGrid
    ELSE IF newGrid[r][c] # Null
         THEN LET temp == newGrid[r][c]
                  g1 == [newGrid EXCEPT ![r][c] = Null]
                  g2 == [g1 EXCEPT ![emptyRow][c] = temp]
              IN  CompactColumnNoDec(g2, c, r - 1, emptyRow)
         ELSE CompactColumnNoDec(newGrid, c, r - 1, emptyRow)

\* Mutant of CompactColumn: the tile is written to emptyRow before its own
\* cell is set to null, so a tile already in place is lost.
RECURSIVE CompactColumnWriteFirst(_, _, _, _)
CompactColumnWriteFirst(newGrid, c, r, emptyRow) ==
    IF r < 0 THEN newGrid
    ELSE IF newGrid[r][c] # Null
         THEN LET temp == newGrid[r][c]
                  g1 == [newGrid EXCEPT ![emptyRow][c] = temp]
                  g2 == [g1 EXCEPT ![r][c] = Null]
              IN  CompactColumnWriteFirst(g2, c, r - 1, emptyRow - 1)
         ELSE CompactColumnWriteFirst(newGrid, c, r - 1, emptyRow)

RECURSIVE CompactColumn(_, _, _, _)
CompactColumn(newGrid, c, r, emptyRow) ==
    IF r < 0 THEN newGrid
    ELSE IF newGrid[r][c] # Null
         THEN LET temp == newGrid[r][c]
                  g1 == [newGrid EXCEPT ![r][c] = Null]
                  g2 == [g1 EXCEPT ![emptyRow][c] = temp]
              IN  CompactColumn(g2, c, r - 1, emptyRow - 1)
         ELSE CompactColumn(newGrid, c, r - 1, emptyRow)

RECURSIVE CompactFrom(_, _)
CompactFrom(newGrid, c) ==
    IF c >= GRID_WIDTH THEN newGrid
    ELSE CompactFrom(CompactColumn(newGrid, c, GRID_HEIGHT - 1, GRID_HEIGHT - 1), c + 1)

\* Mutant of Compact: the columns are left as the clear left them.
CompactNone(newGrid) == newGrid

Compact(newGrid) == CompactFrom(newGrid, 0)

(***************************************************************************)
(* Selection helpers.                                                      *)
(***************************************************************************)
Coord(r, c) == [r |-> r, c |-> c]

\* selected.some(s => s.r === r && s.c === c)                    (line 138)
IsSelected(sel, r, c) == \E i \in 1 .. Len(sel) : sel[i] = Coord(r, c)

\* selected.filter(s => !(s.r === r && s.c === c))              (line 140)
Without(sel, r, c) == SelectSeq(sel, LAMBDA s : s # Coord(r, c))

\* selected.reduce((acc, s) => acc + (grid[s.r][s.c]?.value || 0), 0)  (149)
RECURSIVE SumOf(_, _)
SumOf(sel, g) ==
    IF sel = << >> THEN 0
    ELSE g[Head(sel).r][Head(sel).c].value + SumOf(Tail(sel), g)

\* Mutant of ClearCells: row and column swapped, newGrid[s.c][s.r] = null.
RECURSIVE ClearCellsTransposed(_, _)
ClearCellsTransposed(g, sel) ==
    IF sel = << >> THEN g
    ELSE ClearCellsTransposed([g EXCEPT ![Head(sel).c][Head(sel).r] = Null], Tail(sel))

\* selected.forEach(s => { newGrid[s.r][s.c] = null })      (lines 152-155)
RECURSIVE ClearCells(_, _)
ClearCells(g, sel) ==
    IF sel = << >> THEN g
    ELSE ClearCells([g EXCEPT ![Head(sel).r][Head(sel).c] = Null], Tail(sel))

(***************************************************************************)
(* The engine state one event works on, as a record: the React state the   *)
(* handlers read and write, plus what the event did (res, inj, sig), which  *)
(* goes to the history variable `last`.                                    *)
(*   res : outcome of the checkSum run of this event                       *)
(*         "none" (not run) | "clear" | "overshoot" | "pending",           *)
(*         or "error" when the handler threw before any setter             *)
(*   inj : number of addRow calls of this event                            *)
(*   sig : addRow called setIsGameOver(true) in this event                 *)
(***************************************************************************)
Cur ==
    [mode |-> mode, grid |-> grid, selected |-> selected, target |-> target,
     score |-> score, timeLeft |-> timeLeft, isGameOver |-> isGameOver,
     pendingResets |-> pendingResets,
     res |-> "none", inj |-> 0, sig |-> FALSE]

(***************************************************************************)
(* checkSum (lines 148-186) on the state st.  newTarget is the value       *)
(* generateTarget returns and newRow the row addRow would generate.        *)
(***************************************************************************)
\* Mutant of checkSumClear: the game-over check reads the grid as it was
\* before the selection was cleared and the columns compacted.
checkSumClearStaleTop(st, newTarget, newRow) ==
    LET newGrid == Compact(ClearCells(st.grid, st.selected))
        base == [st EXCEPT !.score = @ + Len(st.selected) * 10,
                           !.selected = << >>,
                           !.target = newTarget,
                           !.res = "clear"]
    IN  IF st.mode = "CLASSIC"
        THEN LET a == IF \E c \in Cols : st.grid[0][c] # Null
                      THEN [grid |-> newGrid, over |-> TRUE]
                      ELSE addRow(newGrid, newRow)
             IN  [base EXCEPT !.grid = a.grid,
                              !.isGameOver = @ \/ a.over,
                              !.inj = @ + 1,
                              !.sig = a.over]
        ELSE [base EXCEPT !.grid = newGrid, !.timeLeft = TIME_LIMIT]

\* Mutant of checkSumClear: setTimeLeft(TIME_LIMIT) is missing.
checkSumClearNoTimerReset(st, newTarget, newRow) ==
    LET newGrid == Compact(ClearCells(st.grid, st.selected))
        base == [st EXCEPT !.score = @ + Len(st.selected) * 10,
                           !.selected = << >>,
                           !.target = newTarget,
                           !.res = "clear"]
    IN  IF st.mode = "CLASSIC"
        THEN LET a == addRow(newGrid, newRow)
             IN  [base EXCEPT !.grid = a.grid,
                              !.isGameOver = @ \/ a.over,
                              !.inj = @ + 1,
                              !.sig = a.over]
        ELSE [base EXCEPT !.grid = newGrid]

\* Mutant of checkSumClear: a clear scores 10 whatever the number of tiles.
checkSumClearFlatScore(st, newTarget, newRow) ==
    LET newGrid == Compact(ClearCells(st.grid, st.selected))
        base == [st EXCEPT !.score = @ + 10,
                           !.selected = << >>,
                           !.target = newTarget,
                           !.res = "clear"]
    IN  IF st.mode = "CLASSIC"
        THEN LET a == addRow(newGrid, newRow)
             IN  [base EXCEPT !.grid = a.grid,
                              !.isGameOver = @ \/ a.over,
                              !.inj = @ + 1,
                              !.sig = a.over]
        ELSE [base EXCEPT !.grid = newGrid, !.timeLeft = TIME_LIMIT]

checkSumClear(st, newTarget, newRow) ==
    LET newGrid == Compact(ClearCells(st.grid, st.selected))
        base == [st EXCEPT !.score = @ + Len(st.selected) * 10,
                           !.selected = << >>,
                           !.target = newTarget,
                           !.res = "clear"]
    IN  IF st.mode = "CLASSIC"
        THEN LET a == addRow(newGrid, newRow)
             IN  [base EXCEPT !.grid = a.grid,
                              !.isGameOver = @ \/ a.over,
                              !.inj = @ + 1,
                              !.sig = a.over]
        ELSE [base EXCEPT !.grid = newGrid, !.timeLeft = TIME_LIMIT]

\* Mutant of checkSumOvershoot: the selection is emptied at once and no
\* callback is scheduled.
checkSumOvershootNoDelay(st) ==
    [st EXCEPT !.selected = << >>, !.res = "overshoot"]

checkSumOvershoot(st) ==
    [st EXCEPT !.pendingResets = @ + 1, !.res = "overshoot"]

checkSum(st, newTarget, newRow) ==
    LET currentSum == SumOf(st.selected, st.grid)
    IN  IF currentSum = st.target THEN checkSumClear(st, newTarget, newRow)
        ELSE IF currentSum > st.target THEN checkSumOvershoot(st)
        ELSE [st EXCEPT !.res = "pending"]

\* The effect of lines 188-192, run by a render in which selected or checkSum
\* (that is: selected, grid, target or mode) changed.
checkSumEffect(st, newTarget, newRow) ==
    IF Len(st.selected) > 0 THEN checkSum(st, newTarget, newRow) ELSE st

\* Mutant of highScoreEffect: the high score follows the score.
highScoreFollows(hs, sc) == sc

\* The high-score effect of lines 213-217, run to its fixed point.
highScoreEffect(hs, sc) == IF sc > hs THEN sc ELSE hs

\* Mutant of TimerRunning: the interval is not cleared on pause.
TimerRunningWhilePaused == mode = "TIME" /\ ~isGameOver

\* Mutant of TimerRunning: the interval survives game over.
TimerRunningWhenOver == mode = "TIME" /\ ~isPaused

\* The interval of lines 194-211 exists exactly while this holds.
TimerRunning == mode = "TIME" /\ ~isGameOver /\ ~isPaused

(***************************************************************************)
(* History: `run` counts the interval ticks since the remaining time was   *)
(* last set to TIME_LIMIT; `t` is the remaining time before a clear.       *)
(***************************************************************************)
History(st, op, run) ==
    [op |-> op, res |-> st.res, inj |-> st.inj, sig |-> st.sig,
     run |-> run,
     t |-> IF st.res = "clear" THEN timeLeft ELSE 0]

\* The state after an event: st and the pause flag.
Commit(st, paused, op, run) ==
    /\ st.score <= MaxScore
    /\ st.pendingResets <= MaxPending
    /\ mode' = st.mode
    /\ grid' = st.grid
    /\ selected' = st.selected
    /\ target' = st.target
    /\ score' = st.score
    /\ timeLeft' = st.timeLeft
    /\ isGameOver' = st.isGameOver
    /\ pendingResets' = st.pendingResets
    /\ isPaused' = paused
    /\ highScore' = highScoreEffect(highScore, st.score)
    /\ last' = History(st, op, IF st.res = "clear" THEN 0 ELSE run)
    /\ UNCHANGED fnVars

(***************************************************************************)
(* Initial state: the useState initial values of lines 49-58.              *)
(***************************************************************************)
NoHistory ==
    [op |-> "init", res |-> "none", inj |-> 0, sig |-> FALSE,
     run |-> 0, t |-> 0]

GameInit ==
    /\ mode = "NONE"
    /\ grid = NoGrid
    /\ selected = << >>
    /\ target = 0
    /\ score = 0
    /\ timeLeft = TIME_LIMIT
    /\ isGameOver = FALSE
    /\ isPaused = FALSE
    /\ highScore = 0
    /\ pendingResets = 0
    /\ last = NoHistory

NoOutput == [grid |-> NoGrid, over |-> FALSE, once |-> NoGrid]

FnIdle ==
    /\ fin = NoGrid
    /\ fout = NoOutput
    /\ fop = "none"

Init == GameInit /\ FnIdle

(***************************************************************************)
(* Events.                                                                 *)
(***************************************************************************)
\* Mutant of startGame: setIsPaused(false) is missing.
startGameKeepsPause(selectedMode, vals, newTarget) ==
    /\ \/ mode = "NONE"
       \/ mode # "NONE" /\ isGameOver /\ selectedMode = mode
    /\ Commit([Cur EXCEPT !.mode = selectedMode,
                          !.grid = initGrid(vals),
                          !.target = newTarget,
                          !.score = 0,
                          !.timeLeft = TIME_LIMIT,
                          !.isGameOver = FALSE,
                          !.selected = << >>],
              isPaused, "startGame", 0)

\* startGame (lines 122-131), from the mode buttons of the menu (328, 336;
\* the cover page in front of them, coverStep, is presentation)
\* or from the game-over overlay (line 524, same mode).
startGame(selectedMode, vals, newTarget) ==
    /\ \/ mode = "NONE"
       \/ mode # "NONE" /\ isGameOver /\ selectedMode = mode
    /\ Commit([Cur EXCEPT !.mode = selectedMode,
                          !.grid = initGrid(vals),
                          !.target = newTarget,
                          !.score = 0,
                          !.timeLeft = TIME_LIMIT,
                          !.isGameOver = FALSE,
                          !.selected = << >>],
              FALSE, "startGame", 0)

\* Mutant of clickIgnored: the !block test is missing.
clickIgnoredNoBlock(r, c) == isGameOver \/ isPaused

\* Mutant of clickIgnored: the isPaused test is missing.
clickIgnoredNoPause(r, c) == isGameOver \/ grid[r][c] = Null

\* handleBlockClick (lines 133-144): the state it leaves, and whether it
\* called setSelected (which makes the render run the checkSum effect).
clickIgnored(r, c) == isGameOver \/ isPaused \/ grid[r][c] = Null

clicked(r, c) ==
    IF clickIgnored(r, c) THEN Cur
    ELSE IF IsSelected(selected, r, c)
         THEN [Cur EXCEPT !.selected = Without(selected, r, c)]
         ELSE [Cur EXCEPT !.selected = Append(selected, Coord(r, c))]

handleBlockClick(r, c, newTarget, newRow) ==
    /\ mode # "NONE"
    /\ Commit(IF clickIgnored(r, c) THEN Cur
              ELSE checkSumEffect(clicked(r, c), newTarget, newRow),
              isPaused, "click", last.run)

(***************************************************************************)
(* handleBlockClick (lines 133-136) called with a coordinate outside the   *)
(* grid, which no button of the page does.  After the isGameOver/isPaused  *)
(* return, grid[r][c] is evaluated: for a row outside the grid grid[r] is  *)
(* undefined and reading its property c throws a TypeError (no setter has  *)
(* run, the state is as before); for a row inside and a column outside     *)
(* grid[r][c] is undefined and the !block return is taken.                 *)
(***************************************************************************)
OutsideRows == {-1, GRID_HEIGHT}

OutsideCols == {-1, GRID_WIDTH}

clickedOutside(r, c) ==
    IF isGameOver \/ isPaused THEN Cur
    ELSE IF r \notin Rows THEN [Cur EXCEPT !.res = "error"]
    ELSE Cur

handleBlockClickOutside(r, c) ==
    /\ mode # "NONE"
    /\ r \notin Rows \/ c \notin Cols
    /\ Commit(clickedOutside(r, c), isPaused, "clickOutside", last.run)

\* Mutant of ticked: prev < 1 for prev <= 1.
tickedLate(newRow) ==
    IF timeLeft < 1
    THEN LET a == addRow(grid, newRow)
         IN  [Cur EXCEPT !.grid = a.grid,
                         !.isGameOver = @ \/ a.over,
                         !.timeLeft = TIME_LIMIT,
                         !.inj = @ + 1,
                         !.sig = a.over]
    ELSE [Cur EXCEPT !.timeLeft = @ - 1]

\* The interval callback (lines 196-204): the state its updaters leave.
ticked(newRow) ==
    IF timeLeft <= 1
    THEN LET a == addRow(grid, newRow)
         IN  [Cur EXCEPT !.grid = a.grid,
                         !.isGameOver = @ \/ a.over,
                         !.timeLeft = TIME_LIMIT,
                         !.inj = @ + 1,
                         !.sig = a.over]
    ELSE [Cur EXCEPT !.timeLeft = @ - 1]

\* A tick, then the checkSum effect when the grid changed.
tick(newTarget, newRow) ==
    /\ TimerRunning
    /\ LET st == ticked(newRow)
       IN  Commit(IF st.grid # grid THEN checkSumEffect(st, newTarget, newRow) ELSE st,
                  isPaused, "tick", IF timeLeft <= 1 THEN 0 ELSE last.run + 1)

\* Pause button of the header (line 407).
togglePause ==
    /\ mode # "NONE"
    /\ Commit(Cur, ~isPaused, "pause", last.run)

\* Resume button of the pause overlay (line 491).
resume ==
    /\ mode # "NONE"
    /\ isPaused
    /\ Commit(Cur, FALSE, "resume", last.run)

\* Mutant of exitToMenu: leaving for the menu also clears the game-over flag.
exitToMenuRevives(newTarget, newRow) ==
    /\ mode # "NONE"
    /\ Commit(checkSumEffect([Cur EXCEPT !.mode = "NONE", !.isGameOver = FALSE],
                             newTarget, newRow),
              isPaused, "exit", last.run)

\* Exit buttons (lines 410, 530): setMode(null), then the checkSum effect
\* (mode is a dependency of checkSum).
exitToMenu(newTarget, newRow) ==
    /\ mode # "NONE"
    /\ Commit(checkSumEffect([Cur EXCEPT !.mode = "NONE"], newTarget, newRow),
              isPaused, "exit", last.run)

\* The setTimeout callback of lines 181-184.
resetTimeout ==
    /\ pendingResets > 0
    /\ Commit([Cur EXCEPT !.selected = << >>, !.pendingResets = @ - 1],
              isPaused, "timeout", last.run)

(***************************************************************************)
(* The values Math.random can yield.  Where an event does not consume a    *)
(* draw, one value stands for all of them.                                 *)
(***************************************************************************)
Clears(st) == Len(st.selected) > 0 /\ SumOf(st.selected, st.grid) = st.target

TargetDraws(st) == IF Clears(st) THEN Targets ELSE {TARGET_MIN}

SomeRow == [c \in Cols |-> Block(NUMBER_MIN, TRUE)]

RowDraws(st) ==
    IF Clears(st) /\ st.mode = "CLASSIC" THEN NewRows ELSE {SomeRow}

TickRowDraws == IF timeLeft <= 1 THEN NewRows ELSE {SomeRow}

Next ==
    \/ \E m \in {"CLASSIC", "TIME"}, vals \in InitVals, t \in Targets : startGame(m, vals, t)
    \/ /\ mode # "NONE"
       /\ \E r \in Rows, c \in Cols :
             \E t \in TargetDraws(clicked(r, c)), row \in RowDraws(clicked(r, c)) :
                handleBlockClick(r, c, t, row)
    \/ \E r \in Rows \cup OutsideRows, c \in Cols \cup OutsideCols :
          handleBlockClickOutside(r, c)
    \/ /\ TimerRunning
       /\ \E row \in TickRowDraws :
             \E t \in TargetDraws(ticked(row)) : tick(t, row)
    \/ togglePause
    \/ resume
    \/ /\ mode # "NONE"
       /\ \E t \in TargetDraws([Cur EXCEPT !.mode = "NONE"]) : exitToMenu(t, SomeRow)
    \/ resetTimeout

Spec == Init /\ [][Next]_vars

\* A scheduled setTimeout callback runs: the browser never drops one.
FairSpec == Spec /\ WF_vars(resetTimeout)

(***************************************************************************)
(* The grid functions in isolation: addRow and the compaction loop applied *)
(* to a grid drawn from all grids of the model's size (fin), the result in *)
(* fout.  The game calls addRow on gravity-compact grids only (the grid    *)
(* after compaction, or the grid state), and the compaction loop on a      *)
(* compact grid with any of its cells cleared, which is any grid.          *)
(***************************************************************************)
Cells == {Null} \cup {Block(v, FALSE) : v \in Values}

AllGrids == [Rows -> [Cols -> Cells]]

IsCompact(g) ==
    \A c \in Cols : \A r \in 0 .. (GRID_HEIGHT - 2) :
        g[r][c] # Null => g[r + 1][c] # Null

GridInit ==
    /\ GameInit
    /\ fin \in AllGrids
    /\ fout = NoOutput
    /\ fop = "none"

FnAddRow(newRow) ==
    /\ fop = "none"
    /\ IsCompact(fin)
    /\ LET a == addRow(fin, newRow)
       IN  fout' = [grid |-> a.grid, over |-> a.over, once |-> NoGrid]
    /\ fop' = "addRow"
    /\ UNCHANGED <<fin, gameVars>>

FnCompact ==
    /\ fop = "none"
    /\ fout' = [grid |-> Compact(fin), over |-> FALSE, once |-> NoGrid]
    /\ fop' = "compact"
    /\ UNCHANGED <<fin, gameVars>>

FnCompactAgain ==
    /\ fop = "compact"
    /\ fout' = [grid |-> Compact(fout.grid), over |-> FALSE, once |-> fout.grid]
    /\ fop' = "compact2"
    /\ UNCHANGED <<fin, gameVars>>

GridNext ==
    \/ \E row \in NewRows : FnAddRow(row)
    \/ FnCompact
    \/ FnCompactAgain

SpecGrid == GridInit /\ [][GridNext]_vars

\* The tiles of column c, read from the top row to the bottom row.
RECURSIVE ColumnFrom(_, _, _)
ColumnFrom(g, c, r) ==
    IF r >= GRID_HEIGHT THEN << >>
    ELSE IF g[r][c] # Null THEN <<g[r][c]>> \o ColumnFrom(g, c, r + 1)
         ELSE ColumnFrom(g, c, r + 1)

ColumnTiles(g, c) == ColumnFrom(g, c, 0)

(***************************************************************************)
(* checkSum in isolation: applied to a state drawn from the gravity-       *)
(* compact grids, the non-empty selections of distinct occupied cells (in  *)
(* every order of selection), the targets and the two game modes.          *)
(***************************************************************************)
CompactGrids == {g \in AllGrids : IsCompact(g)}

RECURSIVE SeqsOver(_)
SeqsOver(S) ==
    {<< >>} \cup UNION {{<<x>> \o q : q \in SeqsOver(S \ {x})} : x \in S}

\* The cells of g that hold a tile.
Occupied(g) == {p \in [r : Rows, c : Cols] : g[p.r][p.c] # Null}

EvalInit ==
    /\ GameInit
    /\ \E m \in {"CLASSIC", "TIME"}, g \in CompactGrids, t \in Targets,
          sc \in {0, 10} :
          \E sel \in SeqsOver(Occupied(g)) \ {<< >>} :
             fin = [mode |-> m, grid |-> g, selected |-> sel, target |-> t,
                    score |-> sc,
                    timeLeft |-> IF m = "TIME" THEN 1 ELSE TIME_LIMIT,
                    isGameOver |-> FALSE, pendingResets |-> 0,
                    res |-> "none", inj |-> 0, sig |-> FALSE]
    /\ fout = NoOutput
    /\ fop = "none"

FnCheckSum(newTarget, newRow) ==
    /\ fop = "none"
    /\ fout' = checkSum(fin, newTarget, newRow)
    /\ fop' = "checkSum"
    /\ UNCHANGED <<fin, gameVars>>

EvalNext ==
    \E t \in TargetDraws(fin) :
        \E row \in IF Clears(fin) /\ fin.mode = "CLASSIC" THEN NewRows ELSE {SomeRow} :
            FnCheckSum(t, row)

SpecEval == EvalInit /\ [][EvalNext]_vars

\* The tiles of column c outside the selection, from the top row down.
RECURSIVE RemainingFrom(_, _, _, _)
RemainingFrom(g, sel, c, r) ==
    IF r >= GRID_HEIGHT THEN << >>
    ELSE IF g[r][c] # Null /\ ~IsSelected(sel, r, c)
         THEN <<g[r][c]>> \o RemainingFrom(g, sel, c, r + 1)
         ELSE RemainingFrom(g, sel, c, r + 1)

Remaining(g, sel, c) == RemainingFrom(g, sel, c, 0)

(***************************************************************************)
(* C1.  addRow signals game over if and only if row 0 of the grid it is    *)
(* called on holds at least one tile, and when it signals game over it     *)
(* returns that grid unchanged.                                            *)
(***************************************************************************)
C1_GameOverIffTopRowOccupied ==
    fop = "addRow" =>
        /\ fout.over <=> (\E c \in Cols : fin[0][c] # Null)
        /\ fout.over => fout.grid = fin

\* addRow refused a grid whose row 0 is only partly occupied.
C1_Witness ==
    /\ fop = "addRow"
    /\ fout.over
    /\ \E c \in Cols : fin[0][c] = Null
    /\ fout.grid = fin

(***************************************************************************)
(* C2.  When row 0 is entirely empty, addRow returns a grid whose row i    *)
(* is the old row i + 1 for every i in 0..GRID_HEIGHT-2 and whose bottom   *)
(* row holds GRID_WIDTH tiles, each with a value in NUMBER_MIN..NUMBER_MAX *)
(* and isNew = true; game over is not signalled.                           *)
(***************************************************************************)
C2_ShiftUpAndFillBottom ==
    (fop = "addRow" /\ \A c \in Cols : fin[0][c] = Null) =>
        /\ ~fout.over
        /\ \A i \in 0 .. (GRID_HEIGHT - 2) : fout.grid[i] = fin[i + 1]
        /\ \A c \in Cols :
              LET b == fout.grid[GRID_HEIGHT - 1][c]
              IN  b # Null /\ b.value \in NUMBER_MIN .. NUMBER_MAX /\ b.isNew = TRUE

\* addRow shifted a row that holds tiles.
C2_Witness ==
    /\ fop = "addRow"
    /\ ~fout.over
    /\ \E c \in Cols : fin[GRID_HEIGHT - 1][c] # Null
    /\ fout.grid[GRID_HEIGHT - 2] = fin[GRID_HEIGHT - 1]

(***************************************************************************)
(* C3.  When the selected values sum exactly to the target, checkSum       *)
(* removes the tiles at the selected coordinates and no other tile: every  *)
(* column keeps its unselected tiles, in their order (followed, after a    *)
(* Classic row injection, by the one new tile of that column), and the     *)
(* score grows by exactly 10 times the number of selected cells.           *)
(***************************************************************************)
C3_ClearRemovesExactlySelection ==
    (fop = "checkSum" /\ SumOf(fin.selected, fin.grid) = fin.target) =>
        /\ fout.res = "clear"
        /\ fout.score = fin.score + 10 * Len(fin.selected)
        /\ \A c \in Cols :
              LET kept == Remaining(fin.grid, fin.selected, c)
                  now == ColumnTiles(fout.grid, c)
              IN  IF fout.inj = 1 /\ ~fout.sig
                  THEN /\ Len(now) = Len(kept) + 1
                       /\ SubSeq(now, 1, Len(kept)) = kept
                       /\ now[Len(now)].isNew
                  ELSE now = kept

\* A clear of two tiles in different rows and columns that left other tiles.
C3_Witness ==
    /\ fop = "checkSum"
    /\ fout.res = "clear"
    /\ Len(fin.selected) = 2
    /\ fin.selected[1].r # fin.selected[2].r
    /\ fin.selected[1].c # fin.selected[2].c
    /\ \E c \in Cols : Remaining(fin.grid, fin.selected, c) # << >>
    /\ fout.score = fin.score + 20

(***************************************************************************)
(* C5.  For every grid and every column, compaction keeps the column's     *)
(* tiles and their top-to-bottom order (so no tile changes column, none is *)
(* lost, duplicated or reordered) and leaves no empty cell below a tile.   *)
(***************************************************************************)
C5_CompactionKeepsColumns ==
    fop = "compact" =>
        /\ \A c \in Cols : ColumnTiles(fout.grid, c) = ColumnTiles(fin, c)
        /\ IsCompact(fout.grid)

\* Compaction moved a tile down.
C5_Witness ==
    /\ fop = "compact"
    /\ ~IsCompact(fin)
    /\ fout.grid # fin

(***************************************************************************)
(* C6.  Compaction is idempotent: compacting the result of a compaction    *)
(* returns it unchanged, and compacting a gravity-compact grid changes     *)
(* nothing.                                                                *)
(***************************************************************************)
C6_CompactionIdempotent ==
    /\ fop = "compact2" => fout.grid = fout.once
    /\ (fop = "compact" /\ IsCompact(fin)) => fout.grid = fin

\* A second compaction of a grid whose first compaction moved tiles.
C6_Witness ==
    /\ fop = "compact2"
    /\ ~IsCompact(fin)
    /\ fout.once # fin
    /\ fout.grid = fout.once

(***************************************************************************)
(* Claims about the game.  An event is told by the history it leaves in    *)
(* last'; the selection a click evaluates is clicked(r, c).selected.       *)
(***************************************************************************)
\* The grid g after a row injection that was not refused.
Injected(g, g2) ==
    /\ \A i \in 0 .. (GRID_HEIGHT - 2) : g2[i] = g[i + 1]
    /\ g2[GRID_HEIGHT - 1] \in NewRows

\* The grid g with its rows moved up by one over the bottom row newRow.
ShiftedGrid(g, newRow) ==
    [r \in Rows |-> IF r < GRID_HEIGHT - 1 THEN g[r + 1] ELSE newRow]

\* The grid g with the cells of sel removed and every column resting on
\* the bottom row, the tiles of a column in their order.
SettledGrid(g, sel) ==
    [r \in Rows |-> [c \in Cols |->
        LET kept == Remaining(g, sel, c)
            top == GRID_HEIGHT - Len(kept)
        IN  IF r >= top THEN kept[r - top + 1] ELSE Null]]

(***************************************************************************)
(* C4.  An evaluation whose sum exceeds the target changes neither the     *)
(* grid nor the score and leaves the selection in place with one reset     *)
(* callback scheduled; the callback, when it runs, empties the selection   *)
(* (and changes neither grid nor score); and while a callback is scheduled *)
(* the selection does eventually become empty.                             *)
(***************************************************************************)
C4_OvershootStep ==
    last'.res = "overshoot" =>
        /\ score' = score
        /\ pendingResets' = pendingResets + 1
        /\ selected' # << >>
        /\ SumOf(selected', grid') > target'
        /\ target' = target
        /\ IF last'.op = "tick" THEN Injected(grid, grid') ELSE grid' = grid

C4_ResetStep ==
    last'.op = "timeout" =>
        /\ pendingResets > 0
        /\ selected' = << >>
        /\ grid' = grid
        /\ score' = score

C4_OvershootResetsSelection ==
    /\ [][C4_OvershootStep /\ C4_ResetStep]_vars
    /\ (pendingResets > 0) ~> (selected = << >>)

\* The callback of an overshoot ran and emptied the selection.
C4_Witness ==
    /\ last.op = "timeout"
    /\ selected = << >>
    /\ pendingResets = 0
    /\ mode # "NONE"
    /\ ~isGameOver

(***************************************************************************)
(* C7.  In a Classic game every successful clear calls addRow exactly once *)
(* on the compacted grid (game over is signalled exactly when row 0 of the *)
(* compacted grid holds a tile, and otherwise the compacted grid is        *)
(* shifted up over a new bottom row); no other event of a Classic game     *)
(* calls addRow, none but a restart changes the grid, and none changes the *)
(* remaining time.                                                         *)
(***************************************************************************)
C7_ClearStep ==
    \E r \in Rows, c \in Cols :
        LET sel == clicked(r, c).selected
        IN  /\ ~clickIgnored(r, c)
            /\ SumOf(sel, grid) = target
            /\ LET cg == SettledGrid(grid, sel)
               IN  /\ last'.sig <=> (\E col \in Cols : cg[0][col] # Null)
                   /\ IF last'.sig THEN grid' = cg /\ isGameOver'
                      ELSE Injected(cg, grid') /\ isGameOver' = isGameOver

C7_ClassicInjectsOncePerClear ==
    [][mode = "CLASSIC" =>
          /\ timeLeft' = timeLeft
          /\ IF last'.res = "clear"
             THEN last'.op = "click" /\ last'.inj = 1 /\ C7_ClearStep
             ELSE /\ last'.inj = 0
                  /\ last'.op # "startGame" =>
                        grid' = grid /\ isGameOver' = isGameOver]_vars

\* A Classic clear emptied row 0, so that the injection went through and
\* filled the grid again.
C7_Witness ==
    /\ mode = "CLASSIC"
    /\ last.op = "click"
    /\ last.res = "clear"
    /\ last.inj = 1
    /\ ~last.sig
    /\ ~isGameOver
    /\ \E c \in Cols : grid[0][c] # Null

(***************************************************************************)
(* C8.  In a Timed game a successful clear sets the remaining time to      *)
(* TIME_LIMIT whatever it was, and calls addRow not at all: the grid after *)
(* a click that clears is the compacted grid.  (A clear that the checkSum  *)
(* effect makes after the timer injected a row comes with that one         *)
(* injection, and compacts the grid the timer left.)                       *)
(***************************************************************************)
C8_TimedClearResetsTimer ==
    [][(mode = "TIME" /\ last'.res = "clear") =>
          /\ timeLeft' = TIME_LIMIT
          /\ mode' = "TIME"
          /\ last'.op \in {"click", "tick"}
          /\ last'.op = "click" =>
                /\ last'.inj = 0
                /\ \E r \in Rows, c \in Cols :
                      /\ ~clickIgnored(r, c)
                      /\ SumOf(clicked(r, c).selected, grid) = target
                      /\ grid' = SettledGrid(grid, clicked(r, c).selected)
          /\ last'.op = "tick" =>
                /\ last'.inj = 1
                /\ timeLeft <= 1
                /\ \E newRow \in NewRows :
                      grid' = SettledGrid(ShiftedGrid(grid, newRow), selected)]_vars

\* A click cleared tiles with less than the full period left.
C8_Witness ==
    /\ mode = "TIME"
    /\ last.op = "click"
    /\ last.res = "clear"
    /\ last.t < TIME_LIMIT
    /\ last.inj = 0
    /\ timeLeft = TIME_LIMIT

(***************************************************************************)
(* C9.  A tick that does not expire the timer lowers the remaining time by *)
(* exactly one and calls addRow not at all; a tick calls addRow, once,     *)
(* exactly when it is the TIME_LIMIT-th tick since the remaining time was  *)
(* last set to TIME_LIMIT, and the remaining time is TIME_LIMIT after it.  *)
(***************************************************************************)
C9_TickCountsDownThenInjects ==
    [][last'.op = "tick" =>
          /\ mode = "TIME" /\ ~isPaused /\ ~isGameOver
          /\ timeLeft = TIME_LIMIT - last.run
          /\ last'.inj \in {0, 1}
          /\ last'.inj = 1 <=> last.run = TIME_LIMIT - 1
          /\ last'.inj = 0 => timeLeft' = timeLeft - 1 /\ grid' = grid
          /\ last'.inj = 1 => timeLeft' = TIME_LIMIT]_vars

\* The TIME_LIMIT-th tick injected a row.
C9_Witness ==
    /\ last.op = "tick"
    /\ last.inj = 1
    /\ ~last.sig
    /\ last.res = "none"
    /\ timeLeft = TIME_LIMIT
    /\ \E c \in Cols : grid[GRID_HEIGHT - 1][c].isNew

(***************************************************************************)
(* C10.  Pausing does not change the remaining time, and while the game is *)
(* paused no event but startGame changes it, resuming included: after a    *)
(* resume the remaining time is what it was when the game was paused.      *)
(***************************************************************************)
C10_PauseKeepsTime ==
    [][((isPaused \/ isPaused') /\ last'.op # "startGame") =>
          timeLeft' = timeLeft]_vars

\* A Timed game resumed with part of the period used up.
C10_Witness ==
    /\ mode = "TIME"
    /\ last.op \in {"pause", "resume"}
    /\ ~isPaused
    /\ ~isGameOver
    /\ timeLeft < TIME_LIMIT


(***************************************************************************)
(* C11.  While the game is paused or over, or the session has been left    *)
(* for the mode menu, no timer tick takes effect: until the game is        *)
(* resumed or startGame is called, no step is a tick, the remaining time   *)
(* does not change, addRow is not called and the grid does not change.     *)
(***************************************************************************)
C11_NoTickUnlessActive ==
    [][((isPaused \/ isGameOver \/ mode = "NONE") /\ last'.op # "startGame") =>
          /\ last'.op # "tick"
          /\ timeLeft' = timeLeft
          /\ last'.inj = 0
          /\ grid' = grid]_vars

\* A Timed game that is over, with time on the clock, took a click.
C11_Witness ==
    /\ mode = "TIME"
    /\ isGameOver
    /\ last.op = "click"
    /\ timeLeft = TIME_LIMIT
    /\ \E c \in Cols : grid[0][c] # Null


(***************************************************************************)
(* C12.  Once game over has been signalled the game stays over under every *)
(* later event (click, pause toggle, resume, tick, delayed selection       *)
(* reset, exit to the menu); only startGame ends it.                       *)
(***************************************************************************)
C12_GameOverIsFinal ==
    [][(isGameOver /\ last'.op # "startGame") => isGameOver']_vars

\* A game that was over was left for the menu, and is over still.
C12_Witness ==
    /\ isGameOver
    /\ mode = "NONE"
    /\ last.op = "exit"


(***************************************************************************)
(* C13.  Whatever the state before (paused, over, a selection in place,    *)
(* any score or remaining time), startGame leaves score 0, the game        *)
(* neither paused nor over, the selection empty, the remaining time        *)
(* TIME_LIMIT, a target in TARGET_MIN..TARGET_MAX, one of the two modes    *)
(* (the mode of the game that ended, on a restart), and a grid whose       *)
(* bottom INITIAL_ROWS rows are full of tiles with values in               *)
(* NUMBER_MIN..NUMBER_MAX and whose other rows are empty.                  *)
(***************************************************************************)
C13_StartGameResets ==
    [][last'.op = "startGame" =>
          /\ score' = 0
          /\ ~isPaused'
          /\ ~isGameOver'
          /\ selected' = << >>
          /\ timeLeft' = TIME_LIMIT
          /\ target' \in TARGET_MIN .. TARGET_MAX
          /\ mode' \in {"CLASSIC", "TIME"}
          /\ mode # "NONE" => mode' = mode
          /\ \A r \in Rows, c \in Cols :
                IF r >= GRID_HEIGHT - INITIAL_ROWS
                THEN grid'[r][c].value \in NUMBER_MIN .. NUMBER_MAX
                ELSE grid'[r][c] = Null]_vars

\* startGame after a game that scored and left a reset callback scheduled.
C13_Witness ==
    /\ last.op = "startGame"
    /\ highScore > 0
    /\ pendingResets > 0
    /\ score = 0
    /\ selected = << >>
    /\ ~isPaused


(***************************************************************************)
(* C14.  Within one game the score is non-negative and never decreases,    *)
(* and it changes only on a successful clear, by 10 times the number of    *)
(* tiles the clear removed from the grid.                                  *)
(***************************************************************************)
\* The number of tiles on the grid g.
TileCount(g) == Cardinality({p \in [r : Rows, c : Cols] : g[p.r][p.c] # Null})

\* The number of tiles the step removed: the tiles before, plus the row an
\* accepted injection brought, minus the tiles after.
TilesCleared ==
    TileCount(grid)
    + (IF last'.inj = 1 /\ ~last'.sig THEN GRID_WIDTH ELSE 0)
    - TileCount(grid')

C14_ScoreStep ==
    last'.op # "startGame" =>
        IF last'.res = "clear"
        THEN TilesCleared > 0 /\ score' = score + 10 * TilesCleared
        ELSE score' = score

C14_ScoreGrowsByClearsOnly ==
    /\ [](score >= 0)
    /\ [][C14_ScoreStep]_vars

\* The first clear of a Classic game removed two tiles at once: only the
\* injected row is on the grid.
C14_Witness ==
    /\ mode = "CLASSIC"
    /\ last.res = "clear"
    /\ last.op = "click"
    /\ ~isGameOver
    /\ score = 20
    /\ TileCount(grid) = GRID_WIDTH


(***************************************************************************)
(* C15.  The high score never decreases under any event (startGame and the *)
(* exit to the menu included), and in every state, the effects of the      *)
(* event having run, it is at least the score.                             *)
(***************************************************************************)
C15_HighScoreKept ==
    /\ [](highScore >= score)
    /\ [][highScore' >= highScore]_vars
    /\ [][last'.op \in {"startGame", "exit"} => highScore' = highScore]_vars

\* A new game begun after a game that scored: the high score is kept.
C15_Witness ==
    /\ last.op = "startGame"
    /\ score = 0
    /\ highScore = 20


(***************************************************************************)
(* C16.  A click on an empty cell, or on any cell while the game is paused *)
(* or over, is a silent no-op: selection, grid, score, target, remaining   *)
(* time, mode, pause and game-over flags are all unchanged.  So a click    *)
(* that changes any of them is a click, in a game neither paused nor over, *)
(* on a cell that holds a tile, and toggles that cell in the selection.    *)
(***************************************************************************)
\* The selection sel with the cell (r, c) toggled.
Toggled(sel, r, c) ==
    IF \E k \in 1 .. Len(sel) : sel[k] = [r |-> r, c |-> c]
    THEN SelectSeq(sel, LAMBDA p : p # [r |-> r, c |-> c])
    ELSE sel \o <<[r |-> r, c |-> c]>>

C16_ClickStep ==
    last'.op = "click" =>
        \/ UNCHANGED <<selected, grid, score, target, timeLeft, mode,
                       isPaused, isGameOver, pendingResets>>
        \/ /\ ~isPaused
           /\ ~isGameOver
           /\ \E r \in Rows, c \in Cols :
                 /\ grid[r][c] # Null
                 /\ IF last'.res = "clear"
                    THEN SumOf(Toggled(selected, r, c), grid) = target
                    ELSE selected' = Toggled(selected, r, c)

C16_IgnoredClickIsNoOp == [][C16_ClickStep]_vars

\* A click on a paused game with a selection in place left everything alone.
C16_Witness ==
    /\ last.op = "click"
    /\ last.res = "none"
    /\ isPaused
    /\ ~isGameOver
    /\ mode # "NONE"
    /\ selected # << >>


(***************************************************************************)
(* C17.  In every state of a started game the target is an integer in      *)
(* TARGET_MIN..TARGET_MAX; before the first startGame it is 0.  Every      *)
(* successful clear sets the target to a draw from that range.             *)
(***************************************************************************)
C17_TargetInRange ==
    IF last.op = "init"
    THEN target = 0
    ELSE target \in TARGET_MIN .. TARGET_MAX

\* A clear drew the largest target.
C17_Witness ==
    /\ last.res = "clear"
    /\ target = TARGET_MAX
    /\ score > 0


(***************************************************************************)
(* C18.  A click with a row or a column outside the grid is ignored        *)
(* silently: it raises no error and changes no state.                      *)
(***************************************************************************)
C18_OutsideClickIsSilent ==
    [][last'.op = "clickOutside" =>
          /\ last'.res # "error"
          /\ UNCHANGED <<mode, grid, selected, target, score, timeLeft,
                         isGameOver, isPaused, highScore, pendingResets>>]_vars

(***************************************************************************)
(* What the code does guarantee for a click outside the grid: no state     *)
(* changes, and an error is raised exactly when the game is neither paused *)
(* nor over and the row is outside the grid.  An error has then been       *)
(* raised in an active game only.                                          *)
(***************************************************************************)
C18_OutsideClickChangesNothing ==
    [][last'.op = "clickOutside" =>
          /\ last'.res = "error" => ~isPaused /\ ~isGameOver
          /\ UNCHANGED <<mode, grid, selected, target, score, timeLeft,
                         isGameOver, isPaused, highScore, pendingResets>>]_vars

\* A click on a row outside the grid raised an error in an active game.
C18_Witness ==
    /\ last.op = "clickOutside"
    /\ last.res = "error"
    /\ ~isPaused
    /\ ~isGameOver
    /\ mode # "NONE"


(***************************************************************************)
(* C19.  In every state of a started game the grid is gravity-compact: in  *)
(* no column is there an empty cell below a tile.  (After startGame, after *)
(* every clear, after every row injection, and when the game is over.)     *)
(***************************************************************************)
C19_GridAlwaysCompact == grid # NoGrid => IsCompact(grid)

\* In a Timed game a clear removed an injected tile from under an older
\* tile, which fell to the bottom row.
C19_Witness ==
    /\ mode = "TIME"
    /\ last.res = "clear"
    /\ \E c \in Cols :
          /\ grid[GRID_HEIGHT - 1][c] # Null
          /\ ~grid[GRID_HEIGHT - 1][c].isNew
          /\ grid[GRID_HEIGHT - 2][c] = Null
    /\ \E c \in Cols : grid[GRID_HEIGHT - 1][c].isNew


(***************************************************************************)
(* C20.  In every reachable state every coordinate of the selection is     *)
(* inside the grid and refers to a cell that holds a tile: when it was     *)
(* clicked and after every later event (a timer-driven row injection under *)
(* a selection in place, game over, pause, exit).                          *)
(***************************************************************************)
C20_SelectionOnTiles ==
    \A k \in 1 .. Len(selected) :
        /\ selected[k].r \in Rows
        /\ selected[k].c \in Cols
        /\ grid[selected[k].r][selected[k].c] # Null

\* The timer injected a row under a selection, which stayed in place: the
\* selected coordinate now holds another tile.
C20_Witness ==
    /\ mode = "TIME"
    /\ last.op = "tick"
    /\ last.inj = 1
    /\ ~last.sig
    /\ last.res \in {"pending", "overshoot"}
    /\ selected # << >>
    /\ \E k \in 1 .. Len(selected) : grid[selected[k].r][selected[k].c].isNew


(***************************************************************************)
(* C21.  While a coordinate stays in the selection it keeps holding the    *)
(* tile the player clicked: no event moves another tile under a selected   *)
(* coordinate, and an evaluation sums, and a clear removes, only tiles the *)
(* player selected.  A tile is told by the cell it occupies: a step keeps  *)
(* the tile of a cell when it does not shift the rows.  A click evaluates  *)
(* the selection before any row moves (a Classic clear shifts the rows     *)
(* after it has removed the tiles), so the events that could move a tile   *)
(* under a selected coordinate are the others.                             *)
(***************************************************************************)
\* The step moved the rows up by one (addRow was called and went through).
RowsShifted == last'.inj = 1 /\ ~last'.sig

\* The selection as the evaluation of this step (if any) read it.
EvaluatedSelection == IF last'.res = "clear" THEN selected ELSE selected'

C21_SelectionStep ==
    last'.op \in {"tick", "pause", "resume", "timeout", "exit", "clickOutside"} =>
        \A k \in 1 .. Len(selected) :
            (\E j \in 1 .. Len(EvaluatedSelection) :
                EvaluatedSelection[j] = selected[k]) =>
                    ~RowsShifted

C21_SelectionKeepsItsTiles == [][C21_SelectionStep]_vars

(***************************************************************************)
(* What the code does guarantee: the selected coordinates are kept, not    *)
(* the tiles.  In a Classic game the rows shift only in a clear, which     *)
(* empties the selection, so a kept coordinate keeps its tile there; in a  *)
(* Timed game an expiring tick shifts the rows under the selection and the *)
(* checkSum effect evaluates the coordinates on the shifted grid.          *)
(***************************************************************************)
C21_ClassicSelectionKeepsItsTiles ==
    [][mode = "CLASSIC" =>
          \A k \in 1 .. Len(selected) :
              (\E j \in 1 .. Len(selected') : selected'[j] = selected[k]) =>
                  /\ ~RowsShifted
                  /\ grid'[selected[k].r][selected[k].c]
                        = grid[selected[k].r][selected[k].c]]_vars

\* The timer shifted the rows under a selection that did not sum to the
\* target, and the evaluation that followed cleared the tiles now at the
\* selected coordinates.
C21_Witness ==
    /\ mode = "TIME"
    /\ last.op = "tick"
    /\ last.inj = 1
    /\ ~last.sig
    /\ last.res = "clear"
    /\ selected = << >>
    /\ score > 0


(***************************************************************************)
(* C22.  The delayed reset an overshoot schedules empties only a selection *)
(* that overshoots: when the player has changed the selection before the   *)
(* delay elapses (deselected down to a sum below the target, or cleared    *)
(* and begun a new selection), the pending reset leaves that newer         *)
(* selection, which does not overshoot, in place.                          *)
(***************************************************************************)
C22_ResetStep ==
    (last'.op = "timeout" /\ selected # << >> /\ SumOf(selected, grid) <= target) =>
        selected' = selected

C22_ResetSparesNewerSelection == [][C22_ResetStep]_vars

(***************************************************************************)
(* What the code does guarantee: the callback empties whatever selection   *)
(* is in place when it runs, and touches nothing else.                     *)
(***************************************************************************)
C22_ResetEmptiesAnySelection ==
    [][last'.op = "timeout" =>
          /\ selected' = << >>
          /\ pendingResets' = pendingResets - 1
          /\ UNCHANGED <<mode, grid, target, score, timeLeft, isGameOver,
                         isPaused, highScore>>]_vars

\* A reset is pending over a selection of an active game that sums to less
\* than the target.
C22_Witness ==
    /\ pendingResets > 0
    /\ selected # << >>
    /\ SumOf(selected, grid) < target
    /\ mode # "NONE"
    /\ ~isGameOver
    /\ ~isPaused
    /\ last.op = "click"


(***************************************************************************)
(* C23.  In a Classic game, in every state in which the game is neither    *)
(* over nor paused, some non-empty set of tiles on the grid has values     *)
(* that sum exactly to the target: a clear is always still possible.       *)
(***************************************************************************)
\* The sum of the values of the cells of the set S of the grid g.
RECURSIVE SumOfCells(_, _)
SumOfCells(S, g) ==
    IF S = {} THEN 0
    ELSE LET p == CHOOSE q \in S : TRUE
         IN  g[p.r][p.c].value + SumOfCells(S \ {p}, g)

\* Some non-empty set of tiles of g sums to t.
Clearable(g, t) ==
    \E S \in (SUBSET Occupied(g)) \ {{}} : SumOfCells(S, g) = t

C23_ClassicAlwaysClearable ==
    (mode = "CLASSIC" /\ ~isGameOver /\ ~isPaused) => Clearable(grid, target)

(***************************************************************************)
(* What the code does guarantee in a Classic game that no set of tiles can *)
(* clear: no event but startGame and the exit changes grid, target or      *)
(* score, so the game stays as it is until the player leaves it.           *)
(***************************************************************************)
C23_StuckStaysStuck ==
    [][(mode = "CLASSIC" /\ ~isGameOver /\ ~Clearable(grid, target)
          /\ last'.op \notin {"startGame", "exit"}) =>
             UNCHANGED <<grid, target, score, isGameOver, mode>>]_vars

\* After a clear, a Classic game in which no set of tiles sums to the
\* target.
C23_Witness ==
    /\ mode = "CLASSIC"
    /\ ~isGameOver
    /\ ~isPaused
    /\ last.res = "clear"
    /\ score > 0
    /\ ~Clearable(grid, target)

=============================================================================
